---- MODULE Spec2Model ----
(***************************************************************************)
(* The fhwise media player entity (AbstractFhwisePlayer) of                *)
(* homeassistant/components/fhwise/media_player.py: its cached fields, the *)
(* command handlers, and the poll handler async_update.                    *)
(*                                                                         *)
(* Volumes that the source holds as floats in 0..1 are held here as        *)
(* integers in units of 1/Scale, so 0.0625 is VolumeUnit and 1.0 is Scale. *)
(* Python's False and True returned in place of a number are 0 and 1, as   *)
(* they are in Python arithmetic and comparison.                           *)
(***************************************************************************)
EXTENDS Integers, Sequences, FiniteSets, TLC

VARIABLES
    _player_state,      \* self._player_state, what the state property reports
    _state,             \* self._state, the attribute the play/pause handlers write
    _volume_level,      \* self._volume_level, the stored level
    _volume_muted,      \* self._volume_muted
    _available,         \* self._available
    _skip_update,       \* self._skip_update
    cmd_ok_since_poll,  \* history: a command's remote call succeeded since the last poll began
    last_remote,        \* history: how the most recent remote call ended
    last,               \* history: the handler that returned last, its arguments and its remote calls
    setup_pc,           \* where async_setup_platform stands
    handshake,          \* history: the client calls of the current setup attempt
    connected,          \* the client handle: connected after connect(), not after disconnect()
    n_added,            \* history: how many times async_add_entities was called
    tasks,              \* the handler invocations suspended at an await
    n_started           \* history: how many overlapping-handler invocations have begun

cache == <<_player_state, _state, _volume_level, _volume_muted, _available, _skip_update>>
history == <<cmd_ok_since_poll, last_remote, last>>
setup == <<setup_pc, handshake, connected, n_added>>
vars == <<_player_state, _state, _volume_level, _volume_muted, _available, _skip_update,
          cmd_ok_since_poll, last_remote, last,
          setup_pc, handshake, connected, n_added, tasks, n_started>>

----------------------------------------------------------------------------
(* Constants of the source *)

STATE_PLAYING == "playing"
STATE_PAUSED == "paused"
STATE_OFF == "off"
\* self._state is not assigned by __init__: the attribute does not exist yet
Unset == "unset"

\* the clamp of volume_up, and the top level the device reports
MaxLevel == 15
\* 1.0 in the integer units of a float volume
Scale == 10000
\* 0.0625 in those units
VolumeUnit == 625
\* the status code get_play_status gives while playing
PlayingCode == 1

(* Bounds of the model *)

\* the status codes the device may report are 0..MaxStatus
MaxStatus == 2
\* the host's volume argument is drawn from the multiples of InputStep in 0..Scale
InputStep == 500

----------------------------------------------------------------------------
(* The remote client: what a call may do *)

Raise == [raised |-> TRUE, val |-> 0]
Ret(v) == [raised |-> FALSE, val |-> v]

\* send_play_pause, set_volume_toggle_mute, set_volume_level -> success flag
FlagOutcomes == {Raise, Ret(0), Ret(1)}
\* get_play_status -> int state code
StatusOutcomes == {Raise} \cup {Ret(s) : s \in 0..MaxStatus}
\* get_volume_level -> numeric level
LevelOutcomes == {Raise} \cup {Ret(l) : l \in 0..MaxLevel}
\* the volume argument of set_volume_level, range 0..1
VolumeInputs == {k * InputStep : k \in 0..(Scale \div InputStep)}

\* Python truth value of a number or bool
Truthy(v) == v # 0

Min(a, b) == IF a < b THEN a ELSE b
Max(a, b) == IF a > b THEN a ELSE b

----------------------------------------------------------------------------
(* Properties of the entity *)

state == _player_state
volume_level == _volume_level * VolumeUnit
is_volume_muted == _volume_muted
available == _available

----------------------------------------------------------------------------
(* _try_command: the result handed back and the availability flag after it *)

\* _try_command that forgets self._available = False
_try_command_KeepAvailable(avail, o) ==
    IF o.raised
    THEN [result |-> 0, available |-> avail]
    ELSE [result |-> o.val, available |-> avail]

_try_command(avail, o) ==
    IF o.raised
    THEN [result |-> 0, available |-> FALSE]
    ELSE [result |-> o.val, available |-> avail]

Outcome(o) == IF o.raised THEN "raised" ELSE "returned"

Call(fn, args, o) == [fn |-> fn, args |-> args, out |-> o]

Returned(op, args, calls) ==
    [op |-> op, args |-> args, calls |-> calls]

----------------------------------------------------------------------------
\* the fields as __init__ leaves them
EntityInit ==
    /\ _player_state = STATE_PLAYING
    /\ _state = Unset
    /\ _volume_level = 1
    /\ _volume_muted = FALSE
    /\ _available = FALSE
    /\ _skip_update = FALSE
    /\ cmd_ok_since_poll = FALSE
    /\ last_remote = "none"
    /\ last = Returned("__init__", <<>>, <<>>)

\* a handler whose guard kept it from doing anything
NoOp(op, args) ==
    /\ UNCHANGED <<cache, cmd_ok_since_poll, last_remote>>
    /\ last' = Returned(op, args, <<>>)

\* the play/pause handlers: one send_play_pause, then self._state on success
PlayPause(op, target, o) ==
    LET r == _try_command(_available, o) IN
    /\ _available' = r.available
    /\ IF Truthy(r.result)
       THEN /\ _state' = target
            /\ _skip_update' = TRUE
            /\ cmd_ok_since_poll' = TRUE
       ELSE UNCHANGED <<_state, _skip_update, cmd_ok_since_poll>>
    /\ UNCHANGED <<_player_state, _volume_level, _volume_muted>>
    /\ last_remote' = Outcome(o)
    /\ last' = Returned(op, <<>>, <<Call("send_play_pause", <<>>, o)>>)

async_turn_on ==
    IF _player_state # STATE_PLAYING
    THEN \E o \in FlagOutcomes : PlayPause("async_turn_on", STATE_PLAYING, o)
    ELSE NoOp("async_turn_on", <<>>)

async_turn_off_Unguarded ==
    \E o \in FlagOutcomes : PlayPause("async_turn_off", STATE_OFF, o)

async_turn_off ==
    IF _player_state = STATE_PLAYING
    THEN \E o \in FlagOutcomes : PlayPause("async_turn_off", STATE_OFF, o)
    ELSE NoOp("async_turn_off", <<>>)

media_play ==
    IF _player_state # STATE_PLAYING
    THEN \E o \in FlagOutcomes : PlayPause("media_play", STATE_PLAYING, o)
    ELSE NoOp("media_play", <<>>)

media_pause ==
    IF _player_state = STATE_PLAYING
    THEN \E o \in FlagOutcomes : PlayPause("media_pause", STATE_OFF, o)
    ELSE NoOp("media_pause", <<>>)

\* mute_volume that forgets self._skip_update = True
ToggleMute_NoSkip(mute, o) ==
    LET r == _try_command(_available, o) IN
    /\ _available' = r.available
    /\ IF Truthy(r.result)
       THEN /\ _volume_muted' = mute
            /\ cmd_ok_since_poll' = TRUE
       ELSE UNCHANGED <<_volume_muted, cmd_ok_since_poll>>
    /\ UNCHANGED <<_player_state, _state, _volume_level, _skip_update>>
    /\ last_remote' = Outcome(o)
    /\ last' = Returned("mute_volume", <<mute>>,
                        <<Call("set_volume_toggle_mute", <<>>, o)>>)

\* the body of mute_volume once its guard has passed
ToggleMute(mute, o) ==
    LET r == _try_command(_available, o) IN
    /\ _available' = r.available
    /\ IF Truthy(r.result)
       THEN /\ _volume_muted' = mute
            /\ _skip_update' = TRUE
            /\ cmd_ok_since_poll' = TRUE
       ELSE UNCHANGED <<_volume_muted, _skip_update, cmd_ok_since_poll>>
    /\ UNCHANGED <<_player_state, _state, _volume_level>>
    /\ last_remote' = Outcome(o)
    /\ last' = Returned("mute_volume", <<mute>>,
                        <<Call("set_volume_toggle_mute", <<>>, o)>>)

mute_volume ==
    \E mute \in BOOLEAN :
        IF _volume_muted # mute
        THEN \E o \in FlagOutcomes : ToggleMute(mute, o)
        ELSE NoOp("mute_volume", <<mute>>)

\* a volume handler that stores the level before looking at the result
SetLevel_StoreBeforeCheck(op, args, vol, o) ==
    LET r == _try_command(_available, o) IN
    /\ _available' = r.available
    /\ _volume_level' = vol
    /\ IF Truthy(r.result)
       THEN /\ _skip_update' = TRUE
            /\ cmd_ok_since_poll' = TRUE
       ELSE UNCHANGED <<_skip_update, cmd_ok_since_poll>>
    /\ UNCHANGED <<_player_state, _state, _volume_muted>>
    /\ last_remote' = Outcome(o)
    /\ last' = Returned(op, args, <<Call("set_volume_level", <<vol>>, o)>>)

\* the three volume handlers: one set_volume_level(vol), then the stored level on success
SetLevel(op, args, vol, o) ==
    LET r == _try_command(_available, o) IN
    /\ _available' = r.available
    /\ IF Truthy(r.result)
       THEN /\ _volume_level' = vol
            /\ _skip_update' = TRUE
            /\ cmd_ok_since_poll' = TRUE
       ELSE UNCHANGED <<_volume_level, _skip_update, cmd_ok_since_poll>>
    /\ UNCHANGED <<_player_state, _state, _volume_muted>>
    /\ last_remote' = Outcome(o)
    /\ last' = Returned(op, args, <<Call("set_volume_level", <<vol>>, o)>>)

\* volume_up without its clamp
volume_up_Unclamped == _volume_level + 1

volume_up_target == Min(MaxLevel, _volume_level + 1)

volume_up ==
    \E o \in FlagOutcomes : SetLevel("volume_up", <<>>, volume_up_target, o)

\* volume_down without its clamp
volume_down_Unclamped == _volume_level - 1

volume_down_target == Max(0, _volume_level - 1)

volume_down ==
    \E o \in FlagOutcomes : SetLevel("volume_down", <<>>, volume_down_target, o)

\* int(volume / 0.0625), volume >= 0
set_volume_level_target(volume) == volume \div VolumeUnit

set_volume_level ==
    \E volume \in VolumeInputs, o \in FlagOutcomes :
        SetLevel("set_volume_level", <<volume>>, set_volume_level_target(volume), o)

\* a skipped poll that marks the entity available like a completed one
SkipPoll_MarksAvailable ==
    /\ _skip_update' = FALSE
    /\ _available' = TRUE
    /\ cmd_ok_since_poll' = FALSE
    /\ UNCHANGED <<_player_state, _state, _volume_level, _volume_muted,
                   last_remote>>
    /\ last' = Returned("async_update", <<>>, <<>>)

\* async_update with the flag set: consume it and return
SkipPoll ==
    /\ _skip_update' = FALSE
    /\ cmd_ok_since_poll' = FALSE
    /\ UNCHANGED <<_player_state, _state, _volume_level, _volume_muted,
                   _available, last_remote>>
    /\ last' = Returned("async_update", <<>>, <<>>)

\* the poll taking every nonzero status code for playing
Refresh_NonzeroIsPlaying(o1, o2) ==
    LET play_state == _try_command(_available, o1)
        vol_level == _try_command(play_state.available, o2)
    IN
    /\ _player_state' = IF Truthy(play_state.result)
                        THEN STATE_PLAYING ELSE STATE_PAUSED
    /\ _volume_level' = vol_level.result
    /\ _volume_muted' = Truthy(vol_level.result)
    /\ _available' = TRUE
    /\ cmd_ok_since_poll' = FALSE
    /\ UNCHANGED <<_state, _skip_update>>
    /\ last_remote' = Outcome(o2)
    /\ last' = Returned("async_update", <<>>,
                        <<Call("get_play_status", <<>>, o1),
                          Call("get_volume_level", <<>>, o2)>>)

\* async_update with the flag clear: the two reads. Both go through
\* _try_command, which hands back False when the call raises, so the except
\* branch of async_update is never entered.
Refresh(o1, o2) ==
    LET play_state == _try_command(_available, o1)
        vol_level == _try_command(play_state.available, o2)
    IN
    /\ _player_state' = IF play_state.result = PlayingCode
                        THEN STATE_PLAYING ELSE STATE_PAUSED
    /\ _volume_level' = vol_level.result
    /\ _volume_muted' = Truthy(vol_level.result)
    /\ _available' = TRUE
    /\ cmd_ok_since_poll' = FALSE
    /\ UNCHANGED <<_state, _skip_update>>
    /\ last_remote' = Outcome(o2)
    /\ last' = Returned("async_update", <<>>,
                        <<Call("get_play_status", <<>>, o1),
                          Call("get_volume_level", <<>>, o2)>>)

\* async_update that returns early without self._skip_update = False
async_update_KeepFlag ==
    IF _skip_update
    THEN /\ cmd_ok_since_poll' = FALSE
         /\ UNCHANGED <<cache, last_remote>>
         /\ last' = Returned("async_update", <<>>, <<>>)
    ELSE \E o1 \in StatusOutcomes, o2 \in LevelOutcomes : Refresh(o1, o2)

async_update ==
    IF _skip_update
    THEN SkipPoll
    ELSE \E o1 \in StatusOutcomes, o2 \in LevelOutcomes : Refresh(o1, o2)

----------------------------------------------------------------------------
(* Handler invocations suspended at an await (used by ConcSpec below) *)

\* at most MaxTasks handler invocations of the entity are in progress at once
MaxTasks == 2
Tasks == 1..MaxTasks
\* at most MaxStarts invocations begin in a run with overlapping handlers
MaxStarts == 3
\* in such a run the device reports the levels 0..ConcMaxLevel
ConcMaxLevel == 2
ConcLevelOutcomes == {Raise} \cup {Ret(l) : l \in 0..ConcMaxLevel}
\* and set_volume_level is given 0.0 or 1.0
ConcVolumeInputs == {0, Scale}

\* history kept by a suspended poll: the command writes that landed after
\* its get_volume_level was answered
NoWrites == [vol_set |-> FALSE, vol |-> 0, mute_set |-> FALSE, mute |-> FALSE]

\* a slot with no invocation in it
Idle ==
    [op |-> "none", fn |-> "none", arg |-> 0, mute |-> FALSE,
     phase |-> "idle", out |-> Ret(0), over |-> NoWrites]

NoTasks == [t \in Tasks |-> Idle]

----------------------------------------------------------------------------
(* async_setup_platform *)

HandshakeCall(fn, raised) == [fn |-> fn, raised |-> raised]

\* the three calls of a handshake that went through
HandshakeDone ==
    <<HandshakeCall("connect", FALSE), HandshakeCall("send_heartbeat", FALSE),
      HandshakeCall("disconnect", FALSE)>>

\* FhwiseMusicPlayer(...): __init__ assigns every field
Construct ==
    /\ _player_state' = STATE_PLAYING
    /\ _state' = Unset
    /\ _volume_level' = 1
    /\ _volume_muted' = FALSE
    /\ _available' = FALSE
    /\ _skip_update' = FALSE

\* except Exception: raise PlatformNotReady
NotReady ==
    /\ setup_pc' = "not_ready"
    /\ UNCHANGED <<cache, history, connected, n_added, tasks, n_started>>

\* fhPlayer = FhwisePlayer(host, port)
SetupConstruct ==
    /\ setup_pc = "construct"
    /\ \E raised \in BOOLEAN :
        IF raised
        THEN NotReady /\ UNCHANGED handshake
        ELSE /\ setup_pc' = "connect"
             /\ connected' = FALSE
             /\ UNCHANGED <<cache, history, handshake, n_added, tasks, n_started>>

\* fhPlayer.connect()
SetupConnect ==
    /\ setup_pc = "connect"
    /\ \E raised \in BOOLEAN :
        /\ handshake' = Append(handshake, HandshakeCall("connect", raised))
        /\ IF raised
           THEN NotReady
           ELSE /\ setup_pc' = "send_heartbeat"
                /\ connected' = TRUE
                /\ UNCHANGED <<cache, history, n_added, tasks, n_started>>

\* model = fhPlayer.send_heartbeat()
SetupHeartbeat ==
    /\ setup_pc = "send_heartbeat"
    /\ \E raised \in BOOLEAN :
        /\ handshake' = Append(handshake, HandshakeCall("send_heartbeat", raised))
        /\ IF raised
           THEN NotReady
           ELSE /\ setup_pc' = "disconnect"
                /\ UNCHANGED <<cache, history, connected, n_added, tasks, n_started>>

\* disconnect() that raises, with async_add_entities still reached
SetupDisconnect_Unchecked ==
    /\ setup_pc = "disconnect"
    /\ \E raised \in BOOLEAN :
        /\ handshake' = Append(handshake, HandshakeCall("disconnect", raised))
        /\ setup_pc' = "add"
        /\ connected' = raised
        /\ UNCHANGED <<cache, history, n_added, tasks, n_started>>

\* fhPlayer.disconnect()
SetupDisconnect ==
    /\ setup_pc = "disconnect"
    /\ \E raised \in BOOLEAN :
        /\ handshake' = Append(handshake, HandshakeCall("disconnect", raised))
        /\ IF raised
           THEN NotReady
           ELSE /\ setup_pc' = "add"
                /\ connected' = FALSE
                /\ UNCHANGED <<cache, history, n_added, tasks, n_started>>

\* async_add_entities([FhwiseMusicPlayer(fhPlayer, ...)]): the entity gets
\* the client handle of the handshake, as disconnect() left it
SetupAdd ==
    /\ setup_pc = "add"
    /\ Construct
    /\ n_added' = n_added + 1
    /\ setup_pc' = "added"
    /\ UNCHANGED <<history, handshake, connected, tasks, n_started>>

\* the host calls async_setup_platform again after PlatformNotReady
SetupRetry ==
    /\ setup_pc = "not_ready"
    /\ setup_pc' = "construct"
    /\ handshake' = <<>>
    /\ connected' = FALSE
    /\ UNCHANGED <<cache, history, n_added, tasks, n_started>>

async_setup_platform ==
    \/ SetupConstruct
    \/ SetupConnect
    \/ SetupHeartbeat
    \/ SetupDisconnect
    \/ SetupAdd

----------------------------------------------------------------------------
(* The entity on its own: set up, one handler at a time *)

\* the host runs handler H to its return, none other suspended
Serialized(H) == H /\ UNCHANGED <<setup, tasks, n_started>>

Init ==
    /\ EntityInit
    /\ setup_pc = "added"
    /\ handshake = HandshakeDone
    /\ connected = FALSE
    /\ n_added = 1
    /\ tasks = NoTasks
    /\ n_started = 0

Next ==
    \/ Serialized(async_turn_on)
    \/ Serialized(async_turn_off)
    \/ Serialized(media_play)
    \/ Serialized(media_pause)
    \/ Serialized(mute_volume)
    \/ Serialized(volume_up)
    \/ Serialized(volume_down)
    \/ Serialized(set_volume_level)
    \/ Serialized(async_update)

Spec == Init /\ [][Next]_vars

(* Setup, then the entity one handler at a time *)

LifeInit ==
    /\ EntityInit
    /\ setup_pc = "construct"
    /\ handshake = <<>>
    /\ connected = FALSE
    /\ n_added = 0
    /\ tasks = NoTasks
    /\ n_started = 0

LifeNext ==
    \/ async_setup_platform
    \/ SetupRetry
    \/ setup_pc = "added" /\ Next

LifeSpec == LifeInit /\ [][LifeNext]_vars

----------------------------------------------------------------------------
(* The entity with handlers overlapping at their awaits.  A handler runs
   without interruption from one await to the next; the only await is the
   executor job of _try_command.  A command's job ends and its handler
   resumes in one step; the last read of a poll may be answered by the device
   some time before the poll resumes. *)

\* slot t takes the next invocation: the lowest idle slot
Free(t) ==
    /\ tasks[t].phase = "idle"
    /\ \A u \in Tasks : u < t => tasks[u].phase # "idle"
    /\ n_started < MaxStarts
InFlight == {t \in Tasks : tasks[t].phase = "sent"}

\* await self.hass.async_add_executor_job(partial(func, *args)) in slot t
Issue(t, op, fn, arg, mute) ==
    tasks' = [tasks EXCEPT ![t] =
                 [op |-> op, fn |-> fn, arg |-> arg, mute |-> mute,
                  phase |-> "sent", out |-> Ret(0), over |-> NoWrites]]

\* one more invocation has begun
Begun == n_started' = n_started + 1

\* a play/pause handler up to its await
ConcStartPlayPause(t) ==
    /\ Free(t)
    /\ Begun
    /\ \/ \E op \in {"async_turn_on", "media_play"} :
            /\ _player_state # STATE_PLAYING
            /\ Issue(t, op, "send_play_pause", 0, FALSE)
       \/ \E op \in {"async_turn_off", "media_pause"} :
            /\ _player_state = STATE_PLAYING
            /\ Issue(t, op, "send_play_pause", 0, FALSE)
    /\ UNCHANGED <<cache, history, setup>>

\* mute_volume up to its await
ConcStartMute(t) ==
    /\ Free(t)
    /\ Begun
    /\ \E mute \in BOOLEAN :
        /\ _volume_muted # mute
        /\ Issue(t, "mute_volume", "set_volume_toggle_mute", 0, mute)
    /\ UNCHANGED <<cache, history, setup>>

\* volume_up, volume_down, set_volume_level up to their await: vol is
\* computed from the stored level as it is now
ConcStartVolume(t) ==
    /\ Free(t)
    /\ Begun
    /\ \/ Issue(t, "volume_up", "set_volume_level", volume_up_target, FALSE)
       \/ Issue(t, "volume_down", "set_volume_level", volume_down_target, FALSE)
       \/ \E volume \in ConcVolumeInputs :
            Issue(t, "set_volume_level", "set_volume_level",
                  set_volume_level_target(volume), FALSE)
    /\ UNCHANGED <<cache, history, setup>>

\* async_update up to its return (flag set) or its first await
ConcStartPoll(t) ==
    /\ Free(t)
    /\ Begun
    /\ IF _skip_update
       THEN /\ _skip_update' = FALSE
            /\ UNCHANGED <<_player_state, _state, _volume_level, _volume_muted,
                           _available, tasks>>
       ELSE /\ Issue(t, "async_update", "get_play_status", 0, FALSE)
            /\ UNCHANGED cache
    /\ UNCHANGED <<history, setup>>

\* what a suspended poll whose level read is answered notes of a command's write
Noted(task, op, arg, mute) ==
    IF task.op = "async_update" /\ task.phase = "answered"
    THEN IF op = "mute_volume"
         THEN [task EXCEPT !.over.mute_set = TRUE, !.over.mute = mute]
         ELSE IF op \in {"volume_up", "volume_down", "set_volume_level"}
         THEN [task EXCEPT !.over.vol_set = TRUE, !.over.vol = arg]
         ELSE task
    ELSE task

\* a command's job ends with outcome o and the handler runs to its return
ConcCommandReturn(t) ==
    /\ tasks[t].phase = "sent"
    /\ tasks[t].op # "async_update"
    /\ UNCHANGED n_started
    /\ \E o \in FlagOutcomes :
        LET r == _try_command(_available, o)
            me == tasks[t]
        IN
        /\ _available' = r.available
        /\ IF Truthy(r.result)
           THEN /\ _skip_update' = TRUE
                /\ _state' = IF me.op \in {"async_turn_on", "media_play"}
                             THEN STATE_PLAYING
                             ELSE IF me.op \in {"async_turn_off", "media_pause"}
                             THEN STATE_OFF ELSE _state
                /\ _volume_muted' = IF me.op = "mute_volume"
                                    THEN me.mute ELSE _volume_muted
                /\ _volume_level' = IF me.fn = "set_volume_level"
                                    THEN me.arg ELSE _volume_level
                /\ tasks' = [u \in Tasks |->
                               IF u = t THEN Idle
                               ELSE Noted(tasks[u], me.op, me.arg, me.mute)]
           ELSE /\ UNCHANGED <<_state, _volume_muted, _volume_level, _skip_update>>
                /\ tasks' = [tasks EXCEPT ![t] = Idle]
    /\ UNCHANGED <<_player_state, history, setup>>

\* get_play_status ends; the poll stores the play state and awaits get_volume_level
ConcPollStatus(t) ==
    /\ tasks[t].phase = "sent"
    /\ tasks[t].fn = "get_play_status"
    /\ UNCHANGED n_started
    /\ \E o1 \in StatusOutcomes :
        LET play_state == _try_command(_available, o1) IN
        /\ _available' = play_state.available
        /\ _player_state' = IF play_state.result = PlayingCode
                            THEN STATE_PLAYING ELSE STATE_PAUSED
    /\ Issue(t, "async_update", "get_volume_level", 0, FALSE)
    /\ UNCHANGED <<_state, _volume_level, _volume_muted, _skip_update,
                   history, setup>>

\* the device answers get_volume_level (or the call fails); the poll has
\* not resumed yet
ConcPollAnswer(t) ==
    /\ tasks[t].phase = "sent"
    /\ tasks[t].fn = "get_volume_level"
    /\ UNCHANGED n_started
    /\ \E o2 \in ConcLevelOutcomes :
        tasks' = [tasks EXCEPT ![t].phase = "answered", ![t].out = o2]
    /\ UNCHANGED <<cache, history, setup>>

\* the poll resumes with the answer and runs to its return
ConcPollReturn(t) ==
    /\ tasks[t].phase = "answered"
    /\ UNCHANGED n_started
    /\ LET vol_level == _try_command(_available, tasks[t].out) IN
        /\ _volume_level' = vol_level.result
        /\ _volume_muted' = Truthy(vol_level.result)
        /\ _available' = TRUE
    /\ tasks' = [tasks EXCEPT ![t] = Idle]
    /\ UNCHANGED <<_player_state, _state, _skip_update, history, setup>>

ConcNext ==
    \E t \in Tasks :
        \/ ConcStartPlayPause(t)
        \/ ConcStartMute(t)
        \/ ConcStartVolume(t)
        \/ ConcStartPoll(t)
        \/ ConcCommandReturn(t)
        \/ ConcPollStatus(t)
        \/ ConcPollAnswer(t)
        \/ ConcPollReturn(t)

ConcSpec == Init /\ [][ConcNext]_vars

TypeOK ==
    /\ _player_state \in {STATE_PLAYING, STATE_PAUSED}
    /\ _state \in {Unset, STATE_PLAYING, STATE_OFF}
    /\ _volume_level \in 0..(Scale \div VolumeUnit)
    /\ _volume_muted \in BOOLEAN
    /\ _available \in BOOLEAN
    /\ _skip_update \in BOOLEAN
    /\ cmd_ok_since_poll \in BOOLEAN
    /\ last_remote \in {"none", "raised", "returned"}

----------------------------------------------------------------------------
(* What the properties below read off the history variable last *)

Commands ==
    {"async_turn_on", "async_turn_off", "media_play", "media_pause",
     "mute_volume", "volume_up", "volume_down", "set_volume_level"}
PlayOps == {"async_turn_on", "media_play"}
PauseOps == {"async_turn_off", "media_pause"}
VolumeOps == {"volume_up", "volume_down", "set_volume_level"}

CallRaised(c) == c.out.raised
CallFalsy(c) == ~c.out.raised /\ ~Truthy(c.out.val)
CallFailed(c) == CallRaised(c) \/ CallFalsy(c)
CallSucceeded(c) == ~c.out.raised /\ Truthy(c.out.val)

\* the handler that returned last was a command that made its remote call
CommandCalled(h) == h.op \in Commands /\ Len(h.calls) = 1
\* the handler that returned last was a poll that queried the device
PollQueried(h) == h.op = "async_update" /\ Len(h.calls) = 2
\* the handler that returned last was a poll that returned early
PollSkipped(h) == h.op = "async_update" /\ h.calls = <<>>

----------------------------------------------------------------------------
\* C1: a command whose remote call fails (raises, or returns a falsy result)
\* leaves the cached play state, the stored volume level, the mute flag and
\* the skip-poll flag as they were before the handler was called.
C1_FailedCommandKeepsCache ==
    [][ (CommandCalled(last') /\ CallFailed(last'.calls[1]))
        => UNCHANGED <<_player_state, _state, _volume_level, _volume_muted,
                       _skip_update>> ]_vars

\* a volume command has returned after a falsy result, its target level not
\* the stored one
C1_Witness ==
    /\ CommandCalled(last) /\ last.op \in VolumeOps
    /\ CallFalsy(last.calls[1])
    /\ last.calls[1].args[1] # _volume_level

C3_SuccessUpdatesTarget ==
    (CommandCalled(last) /\ CallSucceeded(last.calls[1])) =>
        /\ last.op \in PlayOps => state = STATE_PLAYING
        /\ last.op \in PauseOps => state # STATE_PLAYING
        /\ last.op = "mute_volume" => is_volume_muted = last.args[1]
        /\ last.op \in VolumeOps => _volume_level = last.calls[1].args[1]

\* C4: the poll that follows a successful command issues no remote read and
\* changes nothing but the skip-poll flag, which it clears.
C4_PollAfterCommandIsNoOp ==
    [][ (last'.op = "async_update" /\ cmd_ok_since_poll)
        => /\ last'.calls = <<>>
           /\ UNCHANGED <<_player_state, _state, _volume_level, _volume_muted,
                          _available, last_remote>>
           /\ _skip_update /\ ~_skip_update' ]_vars

\* a poll has been skipped on an available entity
C4_Witness ==
    PollSkipped(last) /\ available /\ last_remote = "returned"

\* C5: the skip-poll flag suppresses exactly one poll. The flag is set only
\* if a command succeeded since the last poll began; the poll after a
\* successful command queries nothing and resets the flag; the poll right
\* after a skipped poll issues get_play_status and get_volume_level.
C5_SkipExactlyOnePoll ==
    /\ [](_skip_update => cmd_ok_since_poll)
    /\ [][ (last'.op = "async_update" /\ cmd_ok_since_poll)
           => (PollSkipped(last') /\ ~_skip_update') ]_vars
    /\ [][ (PollSkipped(last) /\ last'.op = "async_update")
           => /\ PollQueried(last')
              /\ last'.calls[1].fn = "get_play_status"
              /\ last'.calls[2].fn = "get_volume_level" ]_vars

\* a poll has been skipped after a mute toggle: the mute flag is not the one
\* a poll would have computed from the level
C5_Witness ==
    PollSkipped(last) /\ ~_skip_update /\ _volume_muted /\ _volume_level = 0

\* C6: the stored volume level is never outside 0..15.
C6_StoredLevelInRange ==
    _volume_level \in 0..MaxLevel

\* C7: the reported volume_level is the stored level times 1/16 and lies
\* in 0..1.
C7_ReportedVolume ==
    /\ volume_level * 16 = _volume_level * Scale
    /\ 0 <= volume_level /\ volume_level <= Scale

\* the reported volume is at the top of its range
C7_Witness ==
    volume_level = Scale

\* C8: whenever the most recent remote call raised, the availability flag is
\* false.
C8_LastCallRaisedNotAvailable ==
    last_remote = "raised" => ~available

\* C9: a non-skipped poll with a failed read returns with the entity
\* unavailable and the cached play state, stored level and mute flag as
\* they were.
C9_FailedPollKeepsCache ==
    [][ (PollQueried(last')
         /\ (CallRaised(last'.calls[1]) \/ CallRaised(last'.calls[2])))
        => /\ ~available'
           /\ UNCHANGED <<_player_state, _volume_level, _volume_muted>> ]_vars

\* C10: turn_on / media_play while the cached state is playing, and turn_off
\* / media_pause while it is not, issue no remote call and change no cached
\* field, nor the skip-poll or availability flag.
C10_RedundantPlayPauseIsNoOp ==
    [][ (\/ last'.op \in PlayOps /\ _player_state = STATE_PLAYING
         \/ last'.op \in PauseOps /\ _player_state # STATE_PLAYING)
        => /\ last'.calls = <<>>
           /\ UNCHANGED <<cache, last_remote>> ]_vars

\* turn_off has returned without a call on a paused player
C10_Witness ==
    /\ last.op = "async_turn_off" /\ last.calls = <<>>
    /\ _player_state = STATE_PAUSED /\ available

----------------------------------------------------------------------------
\* the client functions called so far in this setup attempt, in order
HandshakeFns == [i \in DOMAIN handshake |-> handshake[i].fn]
HandshakeRaised == \E i \in DOMAIN handshake : handshake[i].raised

\* C11: if connect, send_heartbeat or disconnect raises, setup ends with
\* PlatformNotReady and async_add_entities is not called; the entity is
\* added, once, only after all three steps went through.
C11_AddOnlyAfterHandshake ==
    /\ HandshakeRaised => (setup_pc = "not_ready" /\ n_added = 0)
    /\ setup_pc = "not_ready" => n_added = 0
    /\ n_added \in {0, 1}
    /\ (n_added = 1 \/ setup_pc = "add") => handshake = HandshakeDone
    /\ n_added = 1 <=> setup_pc = "added"

\* setup has ended not ready because disconnect raised
C11_Witness ==
    /\ setup_pc = "not_ready" /\ n_added = 0
    /\ Len(handshake) = 3 /\ handshake[3].raised

\* C13: once a play command (media_play, async_turn_on) has succeeded, the
\* same kind of command repeated right after it sends no second
\* send_play_pause; likewise for the pause commands. This is the claim for
\* the shortest sequence it covers, a command directly repeated.
C13_RepeatedPlayPauseSendsNothing ==
    [][ (/\ CommandCalled(last) /\ CallSucceeded(last.calls[1])
         /\ \/ last.op \in PlayOps /\ last'.op \in PlayOps
            \/ last.op \in PauseOps /\ last'.op \in PauseOps)
        => last'.calls = <<>> ]_vars

\* C14: a poll that is not skipped issues get_play_status and then
\* get_volume_level, once each; when both return, the entity is available,
\* the play state is playing iff the status code was 1 and paused otherwise,
\* the stored level is the level read, the mute flag is set iff it is nonzero.
C14_SuccessfulPoll ==
    /\ last.op = "async_update" => (PollSkipped(last) \/ PollQueried(last))
    /\ PollQueried(last) =>
        /\ last.calls[1].fn = "get_play_status"
        /\ last.calls[2].fn = "get_volume_level"
        /\ (~CallRaised(last.calls[1]) /\ ~CallRaised(last.calls[2])) =>
            /\ available
            /\ state = IF last.calls[1].out.val = 1
                       THEN STATE_PLAYING ELSE STATE_PAUSED
            /\ _volume_level = last.calls[2].out.val
            /\ is_volume_muted <=> (last.calls[2].out.val # 0)

\* a poll has read status 2 and level 5
C14_Witness ==
    /\ PollQueried(last)
    /\ ~CallRaised(last.calls[1]) /\ last.calls[1].out.val = 2
    /\ ~CallRaised(last.calls[2]) /\ last.calls[2].out.val = 5
    /\ state = STATE_PAUSED /\ is_volume_muted

\* C15: a command issues at most one remote call; volume_up and volume_down
\* issue exactly one set_volume_level, with min(15, level + 1) and
\* max(0, level - 1), also at the bound, where the stored level stays.
C15_VolumeStepCall ==
    [][ /\ last'.op \in Commands => Len(last'.calls) <= 1
        /\ last'.op = "volume_up" =>
            /\ Len(last'.calls) = 1
            /\ last'.calls[1].fn = "set_volume_level"
            /\ last'.calls[1].args =
                   <<IF _volume_level + 1 > 15 THEN 15 ELSE _volume_level + 1>>
            /\ _volume_level = 15 =>
                   (last'.calls[1].args = <<15>> /\ _volume_level' = 15)
        /\ last'.op = "volume_down" =>
            /\ Len(last'.calls) = 1
            /\ last'.calls[1].fn = "set_volume_level"
            /\ last'.calls[1].args =
                   <<IF _volume_level - 1 < 0 THEN 0 ELSE _volume_level - 1>>
            /\ _volume_level = 0 =>
                   (last'.calls[1].args = <<0>> /\ _volume_level' = 0) ]_vars

\* volume_down has sent 0 and the stored level is 0
C15_Witness ==
    /\ last.op = "volume_down" /\ Len(last.calls) = 1
    /\ last.calls[1].args = <<0>> /\ CallSucceeded(last.calls[1])
    /\ _volume_level = 0

\* C16: the handshake calls connect, send_heartbeat, disconnect in that
\* order, and every remote call a handler of the entity issues afterwards is
\* made while the client handle is connected.
C16_CallsOnConnectedHandle ==
    /\ \E n \in 0..3 : HandshakeFns = SubSeq(<<"connect", "send_heartbeat", "disconnect">>, 1, n)
    /\ (setup_pc = "added" /\ Len(last.calls) > 0) => connected

\* C12: no two remote calls on the entity's client are in flight at the
\* same time, with handlers free to start while another is suspended.
C12_OneCallInFlight ==
    Cardinality(InFlight) <= 1

\* C17: the availability flag is false at construction and goes from false
\* to true only in a poll that was not skipped; no command and no skipped
\* poll sets it.
C17_OnlyPollMakesAvailable ==
    /\ ~available
    /\ [][ (~available /\ available') => (PollQueried(last') /\ ~_skip_update) ]_vars
    /\ [][ (last'.op \in Commands \/ PollSkipped(last'))
           => (available' => available) ]_vars

\* an entity made unavailable by a raising command has stayed so through a
\* skipped poll
C17_Witness ==
    PollSkipped(last) /\ ~available /\ last_remote = "raised"

\* C18: a poll whose level read was answered before a volume or mute
\* command's call took effect does not overwrite what that command stored:
\* when the poll returns after the command, the cached value is the command's.
C18_PollKeepsCommandWrite ==
    [][ \A t \in Tasks :
          (tasks[t].phase = "answered" /\ tasks'[t].phase = "idle")
          => /\ tasks[t].over.vol_set => _volume_level' = tasks[t].over.vol
             /\ tasks[t].over.mute_set => _volume_muted' = tasks[t].over.mute ]_vars

====
